---------------------------- MODULE Spec2Model ----------------------------
(***************************************************************************)
(* Model of the wells API: the polygon endpoints of src/src/routes.wells.js *)
(* (POST /polygon/query, POST /polygon/stats and their helpers) and the    *)
(* calendar-proximity ranker GET /closest-birthday of src/src/db.js.       *)
(*                                                                         *)
(* Representation choices:                                                 *)
(*  - a JS string is a sequence of one-character strings;                  *)
(*  - a JS number that can be NaN is a record [nan, v];                    *)
(*  - a value that can be null/undefined is a record with a "null" or      *)
(*    "present" flag, so that values of one field always compare;          *)
(*  - a quotient is an exact fraction [num, den] (floating-point rounding  *)
(*    is not modelled);                                                    *)
(*  - a batch of rows is a bag (row kind -> multiplicity): the handler     *)
(*    computes nothing that depends on the order of the rows except the    *)
(*    choice of which rows a $limit or the random sample keeps, and that   *)
(*    choice is nondeterministic here.                                     *)
(***************************************************************************)
EXTENDS Integers, Sequences, FiniteSets, TLC

VARIABLES request, dbResult, response, eventLoop, call

vars == <<request, dbResult, response, eventLoop, call>>

-----------------------------------------------------------------------------
(* Bounds of the model *)

\* longest array of documents the store answers to GET /closest-birthday
MaxDocs == 2

\* longest ring (number of points) in a polygon request body
MaxRingLen == 4

\* largest multiplicity of a row kind that is not the bulk kind
MaxSmall == 1

\* largest number of points and largest cap in a direct call of
\* meanNearestNeighborDistance
MaxCallMult == 2

MaxCallCap == 3

\* longest list of dates in a direct call of medianDate
MaxDates == 3

\* number of clients with a request in flight at the same time
NumClients == 2

\* largest number of points the store answers to a stats request served
\* concurrently with others
MaxScanPoints == 3

\* longest array and largest cap in a stepwise call of
\* meanNearestNeighborDistance
MaxShuffleLen == 4

MaxShuffleCap == 3

-----------------------------------------------------------------------------
(* JavaScript values *)

Abs(x) == IF x < 0 THEN -x ELSE x

Min(a, b) == IF a < b THEN a ELSE b

Max(a, b) == IF a > b THEN a ELSE b

Num(v) == [nan |-> FALSE, v |-> v]

NaN == [nan |-> TRUE, v |-> 0]

\* Number.isFinite on the numbers of the model (no infinities arise)
IsFinite(x) == ~x.nan

\* a query parameter / optional string: present or undefined
Str(s) == [present |-> TRUE, s |-> s]

Undefined == [present |-> FALSE, s |-> <<>>]

DigitChars == <<"0", "1", "2", "3", "4", "5", "6", "7", "8", "9">>

IsDigit(c) == \E i \in 1..10 : DigitChars[i] = c

DigitVal(c) == (CHOOSE i \in 1..10 : DigitChars[i] = c) - 1

RECURSIVE TrimLeft(_)
TrimLeft(s) == IF s # <<>> /\ Head(s) = " " THEN TrimLeft(Tail(s)) ELSE s

RECURSIVE TrimRight(_)
TrimRight(s) ==
  IF s # <<>> /\ s[Len(s)] = " " THEN TrimRight(SubSeq(s, 1, Len(s) - 1)) ELSE s

RECURSIVE DigitsValue(_)
DigitsValue(s) ==
  IF s = <<>> THEN 0
  ELSE 10 * DigitsValue(SubSeq(s, 1, Len(s) - 1)) + DigitVal(s[Len(s)])

\* Number(string): white space is trimmed, the empty string is 0, an
\* optionally signed run of digits is its value, anything else is NaN.
\* (Decimal points, exponents, hex and "Infinity" are outside the alphabet
\* of the model's strings.)
StringToNumber(s) ==
  LET t == TrimRight(TrimLeft(s))
      signed == t # <<>> /\ Head(t) \in {"+", "-"}
      body == IF signed THEN Tail(t) ELSE t
  IN  IF t = <<>> THEN Num(0)
      ELSE IF body # <<>> /\ \A i \in 1..Len(body) : IsDigit(body[i])
           THEN Num(IF Head(t) = "-" THEN -DigitsValue(body) ELSE DigitsValue(body))
           ELSE NaN

\* Number(x) of a query parameter: Number(undefined) is NaN
ToNumber(q) == IF q.present THEN StringToNumber(q.s) ELSE NaN

\* String.prototype.slice(from, to) for 0 <= from <= to
StrSlice(s, from, to) == SubSeq(s, from + 1, Min(to, Len(s)))

\* Array.prototype.slice(0, end): a NaN end is 0, a negative end counts
\* from the end of the array
ArraySliceTo(arr, end) ==
  LET len == Len(arr)
      k == IF end.nan THEN 0
           ELSE IF end.v < 0 THEN Max(len + end.v, 0)
           ELSE Min(end.v, len)
  IN  SubSeq(arr, 1, k)

\* Math.min(a, b) with a possibly NaN and b a number
MathMin(a, b) == IF a.nan THEN NaN ELSE Num(Min(a.v, b))

-----------------------------------------------------------------------------
(* Date.UTC, in whole days since 1970-01-01 *)

IsLeapYear(y) == (y % 4 = 0 /\ y % 100 # 0) \/ y % 400 = 0

\* ECMAScript DayFromYear
DayFromYear(y) ==
  365 * (y - 1970) + ((y - 1969) \div 4) - ((y - 1901) \div 100)
    + ((y - 1601) \div 400)

DaysBeforeMonth == <<0, 31, 59, 90, 120, 151, 181, 212, 243, 273, 304, 334>>

\* ECMAScript MakeDay(year, month, date) for integers: month is 0-based and
\* may lie outside 0..11, date may lie outside the month
MakeDay(year, month, date) ==
  LET ym == year + (month \div 12)
      mn == month % 12
  IN  DayFromYear(ym) + DaysBeforeMonth[mn + 1]
        + (IF IsLeapYear(ym) /\ mn >= 2 THEN 1 ELSE 0) + date - 1

-----------------------------------------------------------------------------
(* GET /closest-birthday  (src/src/db.js 75-130) *)

ReferenceYear == 2001

DocsLimit == 5000

LimitDefault == 10

LimitMax == 50

YearDays == 365

\* dayOfYear(m, d): (Date.UTC(2001, m-1, d) - Date.UTC(2001, 0, 1)) / 86400000,
\* floored, plus 1.  Both dates are whole days, so the quotient is exact.
dayOfYear(m, d) ==
  (MakeDay(ReferenceYear, m - 1, d) - MakeDay(ReferenceYear, 0, 1)) + 1

\* parseMonthDay(s): null (here [ok |-> FALSE]) or {m, d}
parseMonthDay(s) ==
  LET m == StringToNumber(StrSlice(s, 5, 7))
      d == StringToNumber(StrSlice(s, 8, 10))
  IN  IF ~IsFinite(m) \/ ~IsFinite(d) THEN [ok |-> FALSE, m |-> 0, d |-> 0]
      ELSE [ok |-> TRUE, m |-> m.v, d |-> d.v]

\* the difference without the wrap across the year boundary
circularDiffUnwrapped(a, b) == Abs(a - b)

circularDiff(a, b) ==
  LET diff == Abs(a - b) IN Min(diff, YearDays - diff)

\* docs.map(...).filter(Boolean): one entry per document whose date parses
RECURSIVE mapped(_, _)
mapped(docs, target) ==
  IF docs = <<>> THEN <<>>
  ELSE LET doc == Head(docs)
           md == parseMonthDay(doc.status_date)
           rest == mapped(Tail(docs), target)
       IN  IF ~md.ok THEN rest
           ELSE <<[doc |-> doc.id,
                   distance |-> circularDiff(dayOfYear(md.m, md.d), target),
                   month |-> md.m, day |-> md.d]>> \o rest

\* insertion of x after every element that does not compare greater
RECURSIVE insertSorted(_, _)
insertSorted(sorted, x) ==
  IF sorted = <<>> THEN <<x>>
  ELSE IF Head(sorted).distance - x.distance <= 0
       THEN <<Head(sorted)>> \o insertSorted(Tail(sorted), x)
       ELSE <<x>> \o sorted

\* Array.prototype.sort((x, y) => x.distance - y.distance): a stable sort
RECURSIVE sortByDistance(_)
sortByDistance(arr) ==
  IF arr = <<>> THEN <<>>
  ELSE insertSorted(sortByDistance(SubSeq(arr, 1, Len(arr) - 1)), arr[Len(arr)])

\* the final .map of the chain
toResult(x) ==
  [distance_days |-> x.distance, status_month |-> x.month,
   status_day |-> x.day, doc |-> x.doc]

ranked(docs, target, limit) ==
  LET cut == ArraySliceTo(sortByDistance(mapped(docs, target)), limit)
  IN  [i \in 1..Len(cut) |-> toResult(cut[i])]

\* wellsCol().find({status_date: {$type: "string"}}).limit(5000): the
\* documents of the collection whose status_date is a string, in store order
RECURSIVE findWithStatusDate(_)
findWithStatusDate(coll) ==
  IF coll = <<>> THEN <<>>
  ELSE IF Head(coll).status_date.present
       THEN <<[id |-> Head(coll).id, status_date |-> Head(coll).status_date.s]>>
              \o findWithStatusDate(Tail(coll))
       ELSE findWithStatusDate(Tail(coll))

-----------------------------------------------------------------------------
(* Polygon helpers  (src/src/routes.wells.js 314-338) *)

LonMin == -180

LonMax == 180

LatMin == -90

LatMax == 90

\* the first point appended without the test for a ring already closed
closeRingAlwaysAppends(ring) ==
  IF Len(ring) < 4 THEN ring ELSE Append(ring, ring[1])

\* closeRingIfNeeded(ring); === on numbers is equality of the values
closeRingIfNeeded(ring) ==
  IF Len(ring) < 4 THEN ring
  ELSE LET first == ring[1]
           last == ring[Len(ring)]
           same == first[1] = last[1] /\ first[2] = last[2]
       IN  IF same THEN ring ELSE Append(ring, first)

clampLonLat(p) ==
  <<Max(LonMin, Min(LonMax, p[1])), Max(LatMin, Min(LatMax, p[2]))>>

\* coordinates[0].map(clampLonLat)
mapClamp(ring) == [i \in 1..Len(ring) |-> clampLonLat(ring[i])]

MinRingPoints == 3

MinRings == 1

BodyLimitMin == 1

BodyLimitMax == 5000

BodyLimitDefault == 2000

\* polygonBodySchema.safeParse(body): every ring of coordinates has at least
\* 3 points, there is at least one ring, and limit (default 2000) lies in
\* 1..5000.  The points of the model are pairs of numbers already.
polygonBodySchema(body) ==
  LET ringsOk == /\ Len(body.coordinates) >= MinRings
                 /\ \A i \in 1..Len(body.coordinates) :
                       Len(body.coordinates[i]) >= MinRingPoints
      limit == IF body.limit.present THEN body.limit.v ELSE BodyLimitDefault
      limitOk == limit >= BodyLimitMin /\ limit <= BodyLimitMax
  IN  [success |-> ringsOk /\ limitOk,
       coordinates |-> body.coordinates, limit |-> limit]

\* the ring both polygon handlers build from a parsed body
normalizedRing(coordinates) == closeRingIfNeeded(mapClamp(coordinates[1]))

-----------------------------------------------------------------------------
(* Geodesy  (src/src/routes.wells.js 570-608) *)

\* haversineMeters(a, b), in units of 6371000 * pi / 180 metres, for two
\* points on the equator or on one meridian, where the great-circle distance
\* is the difference of the longitudes (at most 180) or of the latitudes
haversineMeters(a, b) ==
  IF a[2] = 0 /\ b[2] = 0 THEN Min(Abs(a[1] - b[1]), 360 - Abs(a[1] - b[1]))
  ELSE Abs(a[2] - b[2])

\* 2 * sin(lat) for the latitudes whose sine is a multiple of 1/2
TwiceSin(lat) ==
  CASE lat = -90 -> -2
    [] lat = -30 -> -1
    [] lat = 0 -> 0
    [] lat = 30 -> 1
    [] lat = 90 -> 2

RECURSIVE edgeSum(_, _)
edgeSum(ring, i) ==
  IF i >= Len(ring) THEN 0
  ELSE (ring[i + 1][1] - ring[i][1])
         * (4 + TwiceSin(ring[i][2]) + TwiceSin(ring[i + 1][2]))
       + edgeSum(ring, i + 1)

\* polygonAreaMeters2(ring), in units of pi * 6378137^2 / 720 square metres:
\* the loop adds (lon2r - lon1r) * (2 + sin lat1r + sin lat2r) over the
\* edges, and the result is |sum| * R^2 / 2
polygonAreaMeters2(ringLonLat) == Abs(edgeSum(ringLonLat, 1))

-----------------------------------------------------------------------------
(* Bags of rows and of points, as tuples of multiplicities *)

RECURSIVE SumSeq(_)
SumSeq(s) == IF s = <<>> THEN 0 ELSE Head(s) + SumSeq(Tail(s))

\* the sub-bags of b that hold exactly n elements: what the first n rows of
\* an unordered result, or the first n places of a shuffled array, can hold
RECURSIVE SubBags(_, _)
SubBags(b, n) ==
  IF b = <<>> THEN (IF n = 0 THEN {<<>>} ELSE {})
  ELSE UNION {{<<j>> \o t : t \in SubBags(Tail(b), n - j)} :
                j \in Max(0, n - SumSeq(Tail(b)))..Min(Head(b), n)}

-----------------------------------------------------------------------------
(* medianDate  (src/src/routes.wells.js 610-625) *)

MsPerDay == 86400000

DaysInMonth(y, m) ==
  IF m = 2 THEN (IF IsLeapYear(y) THEN 29 ELSE 28)
  ELSE IF m \in {4, 6, 9, 11} THEN 30 ELSE 31

MsPerHour == 3600000

MsPerMinute == 60000

MsPerSecond == 1000

\* new Date(s).getTime() for a string s, in milliseconds: the date-only ISO
\* form YYYY-MM-DD of a calendar date is UTC midnight of that date, and the
\* ISO form YYYY-MM-DDTHH:mm:ss.sssZ is that instant; any other string of the
\* model is an invalid date (NaN)
DateParse(s) ==
  LET dateShaped == /\ Len(s) >= 10
                    /\ s[5] = "-" /\ s[8] = "-"
                    /\ \A i \in {1, 2, 3, 4, 6, 7, 9, 10} : IsDigit(s[i])
      timeShaped == /\ Len(s) = 24
                    /\ s[11] = "T" /\ s[14] = ":" /\ s[17] = ":"
                    /\ s[20] = "." /\ s[24] = "Z"
                    /\ \A i \in {12, 13, 15, 16, 18, 19, 21, 22, 23} : IsDigit(s[i])
      y == DigitsValue(SubSeq(s, 1, 4))
      m == DigitsValue(SubSeq(s, 6, 7))
      d == DigitsValue(SubSeq(s, 9, 10))
      hh == DigitsValue(SubSeq(s, 12, 13))
      mm == DigitsValue(SubSeq(s, 15, 16))
      ss == DigitsValue(SubSeq(s, 18, 19))
      ms == DigitsValue(SubSeq(s, 21, 23))
      dateOk == dateShaped /\ m \in 1..12 /\ d \in 1..DaysInMonth(y, m)
  IN  IF dateOk /\ Len(s) = 10
      THEN Num(MakeDay(y, m - 1, d) * MsPerDay)
      ELSE IF dateOk /\ timeShaped /\ hh <= 23 /\ mm <= 59 /\ ss <= 59
      THEN Num(MakeDay(y, m - 1, d) * MsPerDay + hh * MsPerHour
                 + mm * MsPerMinute + ss * MsPerSecond + ms)
      ELSE NaN

\* dates.map(d => new Date(d).getTime()).filter(t => Number.isFinite(t))
RECURSIVE finiteTimes(_)
finiteTimes(dates) ==
  IF dates = <<>> THEN <<>>
  ELSE LET t == DateParse(Head(dates))
       IN  IF IsFinite(t) THEN <<t.v>> \o finiteTimes(Tail(dates))
           ELSE finiteTimes(Tail(dates))

RECURSIVE insertAscending(_, _)
insertAscending(sorted, x) ==
  IF sorted = <<>> THEN <<x>>
  ELSE IF Head(sorted) - x <= 0
       THEN <<Head(sorted)>> \o insertAscending(Tail(sorted), x)
       ELSE <<x>> \o sorted

\* the times left in the order of the input
sortOmitted(arr) == arr

\* .sort((a, b) => a - b)
RECURSIVE sortAscending(_)
sortAscending(arr) ==
  IF arr = <<>> THEN <<>>
  ELSE insertAscending(sortAscending(SubSeq(arr, 1, Len(arr) - 1)), arr[Len(arr)])

\* Math.round(s / 2) for an integer s: halves round towards +infinity
RoundHalf(s) == (s + 1) \div 2

\* medianDate(dates): null or the Date whose time value is t
medianDate(dates) ==
  LET times == sortAscending(finiteTimes(dates))
      mid == Len(times) \div 2
  IN  IF Len(times) = 0 THEN [null |-> TRUE, t |-> 0]
      ELSE [null |-> FALSE,
            t |-> IF Len(times) % 2 = 1 THEN times[mid + 1]
                  ELSE RoundHalf(times[mid] + times[mid + 1])]

YearRange == 1960..1980

\* Date.prototype.getUTCFullYear for a time value within YearRange
getUTCFullYear(t) ==
  LET day == t \div MsPerDay
  IN  CHOOSE y \in YearRange : DayFromYear(y) <= day /\ day < DayFromYear(y + 1)

-----------------------------------------------------------------------------
(* meanNearestNeighborDistance  (src/src/routes.wells.js 627-660) *)

\* the nearest other point of the working set pts (multiplicities over the
\* places pointsLonLat) to a point at place i: the inner loop over j # i
nearestOther(pointsLonLat, pts, i) ==
  LET others == {j \in 1..Len(pts) : j # i /\ pts[j] > 0}
      dists == {haversineMeters(pointsLonLat[i].p, pointsLonLat[j].p) : j \in others}
  IN  IF pts[i] >= 2 THEN [inf |-> FALSE, d |-> 0]
      ELSE IF others = {} THEN [inf |-> TRUE, d |-> 0]
      ELSE [inf |-> FALSE, d |-> CHOOSE d \in dists : \A e \in dists : d <= e]

\* lines 632-659: the sample when n0 > cap, the scan and the result
nndScan(pointsLonLat, cap, shuffled) ==
  LET all == [i \in 1..Len(pointsLonLat) |-> pointsLonLat[i].n]
      capped == SumSeq(all) > cap
      pts == IF capped THEN shuffled ELSE all
      n == SumSeq(pts)
      best == [i \in 1..Len(pts) |-> nearestOther(pointsLonLat, pts, i)]
      infinite == \E i \in 1..Len(pts) : pts[i] > 0 /\ best[i].inf
      total == SumSeq([i \in 1..Len(pts) |-> pts[i] * best[i].d])
  IN  [mean_m |-> IF n = 0 THEN [tag |-> "NaN", num |-> 0, den |-> 0]
                  ELSE IF infinite THEN [tag |-> "Infinity", num |-> 0, den |-> n]
                  ELSE [tag |-> "number", num |-> total, den |-> n],
       used_n |-> n, capped |-> capped, evals |-> n * (n - 1)]

NullMean == [tag |-> "null", num |-> 0, den |-> 0]

\* the early return moved below a working set of one point
nndReturnsEarlyOnlyWhenEmpty(pointsLonLat, cap, shuffled) ==
  LET n0 == SumSeq([i \in 1..Len(pointsLonLat) |-> pointsLonLat[i].n])
  IN  IF n0 < 1
      THEN [mean_m |-> NullMean, used_n |-> n0, capped |-> FALSE, evals |-> 0]
      ELSE nndScan(pointsLonLat, cap, shuffled)

\* meanNearestNeighborDistance(pointsLonLat, cap).  pointsLonLat is a tuple of
\* places [p, n]: n points at p.  shuffled is what slice(0, cap) of the
\* shuffled copy holds, a sub-bag of cap points; it is read only when
\* n0 > cap.  evals counts the calls of haversineMeters.  The mean total / n
\* is the fraction num / den: 0 / 0 is NaN, and a working set of one point
\* leaves best at Infinity.
meanNearestNeighborDistance(pointsLonLat, cap, shuffled) ==
  LET n0 == SumSeq([i \in 1..Len(pointsLonLat) |-> pointsLonLat[i].n])
  IN  IF n0 < 2
      THEN [mean_m |-> NullMean, used_n |-> n0, capped |-> FALSE, evals |-> 0]
      ELSE nndScan(pointsLonLat, cap, shuffled)

\* the outcomes of the shuffle and slice(0, cap) for an input of these places
shuffleOutcomes(pointsLonLat, cap) ==
  LET all == [i \in 1..Len(pointsLonLat) |-> pointsLonLat[i].n]
  IN  IF SumSeq(all) > cap THEN SubBags(all, cap) ELSE {all}

-----------------------------------------------------------------------------
(* The wells collection as the polygon handlers see it *)

Coords(c) == [isArray |-> TRUE, c |-> c]

NoCoords == [isArray |-> FALSE, c |-> <<>>]

\* the kinds of wells a polygon can hold; kind 1 is the bulk kind
WellKinds ==
  << [company |-> Str(<<"A">>), mineral_ri |-> Str(<<"C">>),
      status_date |-> Str(<<>>), coords |-> Coords(<<Num(2), Num(0)>>)],
     [company |-> Str(<<"B">>), mineral_ri |-> Str(<<"F">>),
      status_date |-> Str(<<"1","9","7","0","-","0","1","-","0","3">>),
      coords |-> Coords(<<Num(0), Num(0)>>)],
     [company |-> Undefined, mineral_ri |-> Undefined,
      status_date |-> Str(<<"1","9","7","0","-","0","1","-","0","6">>),
      coords |-> NoCoords] >>

NumKinds == Len(WellKinds)

BulkSamples == {0, 1, 1500, 1501, 4000, 4001, 10001}

\* the wells inside a polygon: a multiplicity for every kind
Batches ==
  {<<b>> \o t : b \in BulkSamples, t \in [1..(NumKinds - 1) -> 0..MaxSmall]}

Unknown == <<"U","n","k","n","o","w","n">>

\* { $ifNull: [x, "Unknown"] }
ifNullUnknown(x) == IF x.present THEN x.s ELSE Unknown

RawLimit == 10000

\* the labels of a field over the kinds, after $ifNull
labelsOf(field) == {ifNullUnknown(WellKinds[k][field]) : k \in 1..NumKinds}

\* $group by a normalized field with count {$sum: 1}: the count of a label
groupCount(bag, field, label) ==
  SumSeq([k \in 1..NumKinds |->
            IF ifNullUnknown(WellKinds[k][field]) = label THEN bag[k] ELSE 0])

\* the $facet answer for the wells `matched`, of which the $limit of
\* raw_for_metrics kept `raw`: total ([] when nothing matched, read as 0),
\* the projected rows, and mineral_rights_split (as a set: its order is not
\* used by the handler)
aggregate(matched, raw) ==
  [total |-> SumSeq(matched),
   raw_for_metrics |-> raw,
   mineral_rights_split |->
     {[mineral_ri |-> l, count |-> groupCount(matched, "mineral_ri", l)] :
        l \in {m \in labelsOf("mineral_ri") : groupCount(matched, "mineral_ri", m) > 0}}]

\* a row of raw_for_metrics of kind k, as the $project stage shapes it
rowOf(k) ==
  [company |-> Str(ifNullUnknown(WellKinds[k].company)),
   mineral_ri |-> Str(ifNullUnknown(WellKinds[k].mineral_ri)),
   status_date |-> WellKinds[k].status_date,
   coords |-> WellKinds[k].coords]

-----------------------------------------------------------------------------
(* POST /polygon/stats  (src/src/routes.wells.js 388-567) *)

CapThreshold == 4000

CapLow == 1200

CapHigh == 1500

\* replicate x n times
RECURSIVE Replicate(_, _)
Replicate(x, n) == IF n <= 0 THEN <<>> ELSE <<x>> \o Replicate(x, n - 1)

\* rows.map(r => r.status_date).filter(Boolean), rows taken kind by kind:
\* undefined and the empty string are falsy
RECURSIVE truthyDates(_, _)
truthyDates(rows, k) ==
  IF k > Len(rows) THEN <<>>
  ELSE LET sd == rowOf(k).status_date
       IN  (IF sd.present /\ sd.s # <<>> THEN Replicate(sd.s, rows[k]) ELSE <<>>)
             \o truthyDates(rows, k + 1)

\* the filter of `points`
isPoint(c) ==
  c.isArray /\ Len(c.c) = 2 /\ IsFinite(c.c[1]) /\ IsFinite(c.c[2])

\* rows.map(r => r.coords).filter(...): the places [p, n] of the rows
pointsOf(rows) ==
  [k \in 1..Len(rows) |->
     IF isPoint(rowOf(k).coords)
     THEN [p |-> <<rowOf(k).coords.c[1].v, rowOf(k).coords.c[2].v>>, n |-> rows[k]]
     ELSE [p |-> <<0, 0>>, n |-> 0]]

\* one cap whatever the number of points
capAlwaysHigh(n) == CapHigh

\* const cap = points.length > 4000 ? 1200 : 1500
capFor(n) == IF n > CapThreshold THEN CapLow ELSE CapHigh

\* companyCounts: the Map filled by the loop over rows, as a function on the
\* keys it holds
companyCounts(rows) ==
  LET key(k) == IF rowOf(k).company.present THEN rowOf(k).company.s ELSE Unknown
      keys == {key(k) : k \in {i \in 1..Len(rows) : rows[i] > 0}}
  IN  [c \in keys |->
         SumSeq([k \in 1..Len(rows) |-> IF key(k) = c THEN rows[k] ELSE 0])]

RECURSIVE SumSquares(_, _)
SumSquares(f, keys) ==
  IF keys = {} THEN 0
  ELSE LET c == CHOOSE x \in keys : TRUE
       IN  f[c] * f[c] + SumSquares(f, keys \ {c})

NullFrac == [null |-> TRUE, num |-> 0, den |-> 0]

Frac(a, b) == [null |-> FALSE, num |-> a, den |-> b]

\* pct: count ? r.count / count : 0
pctOf(c, count) == IF count # 0 THEN Frac(c, count) ELSE Frac(0, 1)

\* lambda = area_m2 > 0 ? points.length / area_m2 : null
lambdaOf(npoints, area_m2) ==
  IF area_m2 > 0 THEN Frac(npoints, area_m2) ELSE NullFrac

\* the guard without its test of the observed mean
hasIndexIgnoringMean(mean_nnd_m, lambda) == ~lambda.null /\ lambda.num > 0

\* the guard of the Clark-Evans block
hasIndex(mean_nnd_m, lambda) ==
  mean_nnd_m.tag # "null" /\ ~lambda.null /\ lambda.num > 0

\* expected_mean_nnd_m = 1 / (2 * Math.sqrt(lambda)), held as its square
\* 1 / (4 * lambda)
expectedOf(mean_nnd_m, lambda) ==
  IF hasIndex(mean_nnd_m, lambda) THEN Frac(lambda.den, 4 * lambda.num)
  ELSE NullFrac

\* nni = mean_nnd_m / expected_mean_nnd_m, held as its two operands
nniOf(mean_nnd_m, lambda) ==
  IF hasIndex(mean_nnd_m, lambda)
  THEN [null |-> FALSE, mean |-> mean_nnd_m,
        expected_sq |-> Frac(lambda.den, 4 * lambda.num)]
  ELSE [null |-> TRUE, mean |-> NullMean, expected_sq |-> NullFrac]

\* the sum of the squared shares whatever the count
hhiUnguarded(rows, count) ==
  Frac(SumSquares(companyCounts(rows), DOMAIN companyCounts(rows)), count * count)

\* hhi: null, or the sum over companyCounts of (c / count)^2, held over the
\* common denominator count^2
hhiOf(rows, count) ==
  IF count > 0
  THEN Frac(SumSquares(companyCounts(rows), DOMAIN companyCounts(rows)),
            count * count)
  ELSE NullFrac

\* the statements of the handler after the aggregation: out is the $facet
\* answer, shuffled the outcome of the sample inside
\* meanNearestNeighborDistance.  lambda is a local of the handler, kept in
\* the record next to the fields of the response.
statsReport(ring, out, shuffled) ==
  LET rows == out.raw_for_metrics
      count == out.total
      median_status_date == medianDate(truthyDates(rows, 1))
      points == pointsOf(rows)
      npoints == SumSeq([k \in 1..Len(points) |-> points[k].n])
      area_m2 == polygonAreaMeters2(ring)
      lambda == lambdaOf(npoints, area_m2)
      nnd == meanNearestNeighborDistance(points, capFor(npoints), shuffled)
  IN  [status |-> 200,
       polygon |-> ring,
       count |-> count,
       mineral_rights_split |->
         {[mineral_ri |-> r.mineral_ri, count |-> r.count,
           pct |-> pctOf(r.count, count)] : r \in out.mineral_rights_split},
       median_status_date |-> median_status_date,
       median_status_year |->
         IF median_status_date.null THEN [null |-> TRUE, y |-> 0]
         ELSE [null |-> FALSE, y |-> getUTCFullYear(median_status_date.t)],
       area_m2 |-> area_m2,
       wells_with_coords |-> npoints,
       lambda |-> lambda,
       mean_nnd_m |-> nnd.mean_m,
       expected_mean_nnd_m |-> expectedOf(nnd.mean_m, lambda),
       nni |-> nniOf(nnd.mean_m, lambda),
       nnd_used_n |-> nnd.used_n,
       nnd_capped |-> nnd.capped,
       nnd_evals |-> nnd.evals,
       hhi |-> hhiOf(rows, count)]

-----------------------------------------------------------------------------
(* Requests the model sends *)

RingPoints == {<<0, 0>>, <<10, 30>>, <<200, -100>>, <<180, -90>>}

Rings == UNION {[1..n -> RingPoints] : n \in 0..MaxRingLen}

\* a second ring of two points: the handlers never read it, the schema does
ShortRing == <<<<0, 0>>, <<10, 30>>>>

CoordinateSamples ==
  {<<>>} \cup {<<r>> : r \in Rings} \cup {<<r, ShortRing>> : r \in Rings}

OptInt(v) == [present |-> TRUE, v |-> v]

NoInt == [present |-> FALSE, v |-> 0]

BodyLimitSamples == {NoInt, OptInt(0)}

Bodies ==
  {[coordinates |-> c, limit |-> l] : c \in CoordinateSamples, l \in BodyLimitSamples}

DocDateSamples ==
  { Undefined,
    Str(<<>>),
    Str(<<"1","9","8","4">>),
    Str(<<"1","9","8","4","-","1","2","-","3","1">>),
    Str(<<"2","0","0","1","-","0","1","-","0","1">>),
    Str(<<"1","9","9","9","-","0","7","-","0","2">>),
    Str(<<"1","9","8","4","-","x","x","-","y","y">>),
    Str(<<"1","9","8","4","-","9","9","-","9","9">>),
    Str(<<"1","9","8","4","-","1","-","5">>) }

\* the wells collection in store order; a document is known by its place
Collections ==
  UNION {{[i \in 1..n |-> [id |-> i, status_date |-> f[i]]] :
            f \in [1..n -> DocDateSamples]} : n \in 0..MaxDocs}

MonthSamples ==
  {Undefined, Str(<<"1">>), Str(<<"7">>), Str(<<"1","2">>), Str(<<"2","4">>),
   Str(<<"x">>)}

DaySamples == {Undefined, Str(<<"1">>), Str(<<"3","1">>)}

LimitSamples ==
  {Undefined, Str(<<"-","1">>), Str(<<"0">>), Str(<<"1">>), Str(<<"5","1">>),
   Str(<<"x">>)}

Queries ==
  {[month |-> m, day |-> d, limit |-> l] :
     m \in MonthSamples, d \in DaySamples, l \in LimitSamples}

-----------------------------------------------------------------------------
(* The server: one request at a time is received, handled and answered *)

NoRequest == [endpoint |-> "none"]

NoQueryYet == [queried |-> FALSE]

NoResponse == [status |-> 0]

\* no callback is running or queued on the event loop
NoLoop == [running |-> 0, i |-> 0, callbacks |-> {}]

\* no call of the shuffle is in progress
NoCall == [pc |-> "none"]

Idle == request = NoRequest

Pending(endpoint) == request.endpoint = endpoint /\ response = NoResponse

Init ==
  /\ request = NoRequest
  /\ dbResult = NoQueryYet
  /\ response = NoResponse
  /\ eventLoop = NoLoop
  /\ call = NoCall

RequestPolygonQuery ==
  /\ Idle
  /\ \E body \in Bodies : request' = [endpoint |-> "/polygon/query", body |-> body]
  /\ UNCHANGED <<dbResult, response>>
  /\ UNCHANGED <<eventLoop, call>>

RequestPolygonStats ==
  /\ Idle
  /\ \E body \in Bodies : request' = [endpoint |-> "/polygon/stats", body |-> body]
  /\ UNCHANGED <<dbResult, response>>
  /\ UNCHANGED <<eventLoop, call>>

RequestClosestBirthday ==
  /\ Idle
  /\ \E query \in Queries :
       request' = [endpoint |-> "/closest-birthday", query |-> query]
  /\ UNCHANGED <<dbResult, response>>
  /\ UNCHANGED <<eventLoop, call>>

InvalidBody == [status |-> 400, error |-> "Invalid body"]

RingTooSmall ==
  [status |-> 400,
   error |-> "Polygon ring must have at least 3 points (and will be closed)."]

\* wellsRouter.post("/polygon/query")
PolygonQuery ==
  /\ Pending("/polygon/query")
  /\ LET parsed == polygonBodySchema(request.body)
         ring == normalizedRing(parsed.coordinates)
     IN  IF ~parsed.success
         THEN response' = InvalidBody /\ UNCHANGED dbResult
         ELSE IF Len(ring) < 4
         THEN response' = RingTooSmall /\ UNCHANGED dbResult
         ELSE \E matched \in Batches :
                \E results \in SubBags(matched, Min(parsed.limit, SumSeq(matched))) :
                  /\ dbResult' = [queried |-> TRUE, ring |-> ring,
                                  matched |-> matched]
                  /\ response' = [status |-> 200, count |-> SumSeq(results),
                                  results |-> results]
  /\ UNCHANGED request
  /\ UNCHANGED <<eventLoop, call>>

\* wellsRouter.post("/polygon/stats")
PolygonStats ==
  /\ Pending("/polygon/stats")
  /\ LET parsed == polygonBodySchema(request.body)
         ring == normalizedRing(parsed.coordinates)
     IN  IF ~parsed.success
         THEN response' = InvalidBody /\ UNCHANGED dbResult
         ELSE IF Len(ring) < 4
         THEN response' = RingTooSmall /\ UNCHANGED dbResult
         ELSE \E matched \in Batches :
                \E raw \in SubBags(matched, Min(RawLimit, SumSeq(matched))) :
                  LET out == aggregate(matched, raw)
                      points == pointsOf(raw)
                      cap == capFor(SumSeq([k \in 1..Len(points) |-> points[k].n]))
                  IN  \E shuffled \in shuffleOutcomes(points, cap) :
                        /\ dbResult' = [queried |-> TRUE, ring |-> ring,
                                        matched |-> matched]
                        /\ response' = statsReport(ring, out, shuffled)
  /\ UNCHANGED request
  /\ UNCHANGED <<eventLoop, call>>

\* statsRouter.get("/closest-birthday").  limit is a local of the handler, kept
\* in the record next to the fields of the response.
ClosestBirthday ==
  /\ Pending("/closest-birthday")
  /\ LET month == ToNumber(request.query.month)
         day == ToNumber(request.query.day)
         limit == MathMin(IF request.query.limit.present
                          THEN ToNumber(request.query.limit)
                          ELSE Num(LimitDefault), LimitMax)
     IN  IF ~IsFinite(month) \/ ~IsFinite(day)
         THEN /\ response' = [status |-> 400,
                              error |-> "month and day are required numbers"]
              /\ UNCHANGED dbResult
         ELSE \E coll \in Collections :
                LET found == findWithStatusDate(coll)
                    docs == SubSeq(found, 1, Min(Len(found), DocsLimit))
                    target == dayOfYear(month.v, day.v)
                    results == ranked(docs, target, limit)
                IN  /\ dbResult' = [queried |-> TRUE, docs |-> docs]
                    /\ response' = [status |-> 200, month |-> month.v,
                                    day |-> day.v, limit |-> limit,
                                    count |-> Len(results), results |-> results]
  /\ UNCHANGED request
  /\ UNCHANGED <<eventLoop, call>>

\* the response is sent; the next request starts from a clean slate
Finish ==
  /\ response # NoResponse
  /\ request' = NoRequest
  /\ dbResult' = NoQueryYet
  /\ response' = NoResponse
  /\ UNCHANGED <<eventLoop, call>>

Next ==
  \/ RequestPolygonQuery
  \/ RequestPolygonStats
  \/ RequestClosestBirthday
  \/ PolygonQuery
  \/ PolygonStats
  \/ ClosestBirthday
  \/ Finish

Spec == Init /\ [][Next]_vars

-----------------------------------------------------------------------------
(* meanNearestNeighborDistance called directly, with any cap *)

CallPlaces == <<<<0, 0>>, <<2, 0>>, <<5, 0>>>>

CallInputs ==
  {[i \in 1..Len(CallPlaces) |-> [p |-> CallPlaces[i], n |-> f[i]]] :
     f \in [1..Len(CallPlaces) -> 0..MaxCallMult]}

InitCall ==
  /\ request \in {[endpoint |-> "meanNearestNeighborDistance",
                   pointsLonLat |-> pts, cap |-> cap] :
                    pts \in CallInputs, cap \in 0..MaxCallCap}
  /\ dbResult = NoQueryYet
  /\ response = NoResponse
  /\ eventLoop = NoLoop
  /\ call = NoCall

CallMeanNearestNeighborDistance ==
  /\ Pending("meanNearestNeighborDistance")
  /\ \E shuffled \in shuffleOutcomes(request.pointsLonLat, request.cap) :
       response' = [status |-> 1,
                    nnd |-> meanNearestNeighborDistance(request.pointsLonLat,
                                                        request.cap, shuffled)]
  /\ UNCHANGED <<request, dbResult>>
  /\ UNCHANGED <<eventLoop, call>>

NextCall == CallMeanNearestNeighborDistance

SpecCall == InitCall /\ [][NextCall]_vars

-----------------------------------------------------------------------------
(* medianDate called directly *)

DateSamples ==
  { <<>>,
    <<"x","x">>,
    <<"1","9","7","0","-","0","1","-","0","3">>,
    <<"1","9","7","0","-","0","1","-","0","6">>,
    <<"1","9","7","0","-","0","1","-","0","1","T","0","0",":","0","0",":",
      "0","0",".","0","0","1","Z">>,
    <<"1","9","7","0","-","0","1","-","0","1","T","0","0",":","0","0",":",
      "0","0",".","0","0","2","Z">> }

DateLists == UNION {[1..n -> DateSamples] : n \in 0..MaxDates}

InitMedian ==
  /\ request \in {[endpoint |-> "medianDate", dates |-> l] : l \in DateLists}
  /\ dbResult = NoQueryYet
  /\ response = NoResponse
  /\ eventLoop = NoLoop
  /\ call = NoCall

CallMedianDate ==
  /\ Pending("medianDate")
  /\ response' = [status |-> 1, median |-> medianDate(request.dates)]
  /\ UNCHANGED <<request, dbResult>>
  /\ UNCHANGED <<eventLoop, call>>

NextMedian == CallMedianDate

SpecMedian == InitMedian /\ [][NextMedian]_vars

-----------------------------------------------------------------------------
(* dayOfYear and circularDiff called on two calendar dates *)

MonthLengths == <<31, 28, 31, 30, 31, 30, 31, 31, 30, 31, 30, 31>>

\* the month/day pairs of the non-leap reference year
CalendarDates == {md \in (1..12) \X (1..31) : md[2] <= MonthLengths[md[1]]}

InitCalendar ==
  /\ request \in {[endpoint |-> "dayOfYear", first |-> x, second |-> y] :
                    x \in CalendarDates, y \in CalendarDates}
  /\ dbResult = NoQueryYet
  /\ response = NoResponse
  /\ eventLoop = NoLoop
  /\ call = NoCall

CallDayOfYear ==
  /\ Pending("dayOfYear")
  /\ LET a == dayOfYear(request.first[1], request.first[2])
         b == dayOfYear(request.second[1], request.second[2])
     IN  response' = [status |-> 1, a |-> a, b |-> b,
                      ab |-> circularDiff(a, b), ba |-> circularDiff(b, a)]
  /\ UNCHANGED <<request, dbResult>>
  /\ UNCHANGED <<eventLoop, call>>

NextCalendar == CallDayOfYear

SpecCalendar == InitCalendar /\ [][NextCalendar]_vars

-----------------------------------------------------------------------------
(* The server under concurrent requests.  Node runs every handler and    *)
(* every continuation of an await as a callback on one thread, each to   *)
(* completion; the store answers off that thread.                        *)

Clients == 1..NumClients

LoopEndpoints == {"/health", "/polygon/stats"}

AwaitingStore == [queried |-> TRUE, answered |-> FALSE]

\* iterations of the outer loop of the scan over n points
scanLength(n) == IF n < 2 THEN 0 ELSE n

InitLoop ==
  /\ request = [c \in Clients |-> NoRequest]
  /\ dbResult = [c \in Clients |-> NoQueryYet]
  /\ response = [c \in Clients |-> NoResponse]
  /\ eventLoop = NoLoop
  /\ call = NoCall

\* a request arrives; its handler is queued as a callback
Arrive(c) ==
  /\ request[c] = NoRequest
  /\ \E e \in LoopEndpoints :
       request' = [request EXCEPT ![c] = [endpoint |-> e]]
  /\ eventLoop' = [eventLoop EXCEPT !.callbacks = @ \cup {c}]
  /\ UNCHANGED <<dbResult, response, call>>

\* the handler runs up to its response (GET /health) or up to its await of
\* the store (POST /polygon/stats)
BeginHandling(c) ==
  /\ eventLoop.running = 0
  /\ c \in eventLoop.callbacks
  /\ ~dbResult[c].queried
  /\ eventLoop' = [eventLoop EXCEPT !.callbacks = @ \ {c}]
  /\ IF request[c].endpoint = "/health"
     THEN /\ response' = [response EXCEPT ![c] = [status |-> 200, ok |-> TRUE]]
          /\ UNCHANGED dbResult
     ELSE /\ dbResult' = [dbResult EXCEPT ![c] = AwaitingStore]
          /\ UNCHANGED response
  /\ UNCHANGED <<request, call>>

\* the store answers the aggregation; the continuation of the await is queued
StoreAnswers(c) ==
  /\ dbResult[c].queried
  /\ ~dbResult[c].answered
  /\ \E n \in 0..MaxScanPoints :
       dbResult' = [dbResult EXCEPT ![c] = [queried |-> TRUE, answered |-> TRUE,
                                            points |-> n]]
  /\ eventLoop' = [eventLoop EXCEPT !.callbacks = @ \cup {c}]
  /\ UNCHANGED <<request, response, call>>

\* the continuation starts: the statistics are computed on the thread and
\* meanNearestNeighborDistance is called there
Resume(c) ==
  /\ eventLoop.running = 0
  /\ c \in eventLoop.callbacks
  /\ dbResult[c].queried
  /\ eventLoop' = [running |-> c, i |-> 0, callbacks |-> eventLoop.callbacks \ {c}]
  /\ UNCHANGED <<request, dbResult, response, call>>

\* one iteration of the outer loop of the scan
ScanStep(c) ==
  /\ eventLoop.running = c
  /\ eventLoop.i < scanLength(dbResult[c].points)
  /\ eventLoop' = [eventLoop EXCEPT !.i = @ + 1]
  /\ UNCHANGED <<request, dbResult, response, call>>

\* the scan is over: the response is sent and the callback returns
Respond(c) ==
  /\ eventLoop.running = c
  /\ eventLoop.i = scanLength(dbResult[c].points)
  /\ response' = [response EXCEPT ![c] = [status |-> 200,
                                          nnd_used_n |-> dbResult[c].points]]
  /\ eventLoop' = [eventLoop EXCEPT !.running = 0, !.i = 0]
  /\ UNCHANGED <<request, dbResult, call>>

\* the exchange with the client is over
FinishRequest(c) ==
  /\ response[c] # NoResponse
  /\ request' = [request EXCEPT ![c] = NoRequest]
  /\ dbResult' = [dbResult EXCEPT ![c] = NoQueryYet]
  /\ response' = [response EXCEPT ![c] = NoResponse]
  /\ UNCHANGED <<eventLoop, call>>

NextLoop ==
  \E c \in Clients :
    \/ Arrive(c)
    \/ BeginHandling(c)
    \/ StoreAnswers(c)
    \/ Resume(c)
    \/ ScanStep(c)
    \/ Respond(c)
    \/ FinishRequest(c)

SpecLoop == InitLoop /\ [][NextLoop]_vars

-----------------------------------------------------------------------------
(* meanNearestNeighborDistance step by step, on arrays.  pointsLonLat is *)
(* the caller's array object; shuffled is the array the spread creates.  *)

ShufflePoints == {<<0, 0>>, <<2, 0>>, <<5, 0>>}

ShuffleArrays == UNION {[1..n -> ShufflePoints] : n \in 0..MaxShuffleLen}

\* [...arr]: a new array with the elements of arr
spread(arr) == [k \in 1..Len(arr) |-> arr[k]]

\* an exchange that only assigns shuffled[i]
swapOverwrites(arr, i, j) == [arr EXCEPT ![i + 1] = arr[j + 1]]

\* [arr[i], arr[j]] = [arr[j], arr[i]], on 0-based indices
swap(arr, i, j) == [arr EXCEPT ![i + 1] = arr[j + 1], ![j + 1] = arr[i + 1]]

InitShuffle ==
  /\ request \in {[endpoint |-> "meanNearestNeighborDistance",
                   pointsLonLat |-> arr, cap |-> cap] :
                    arr \in ShuffleArrays, cap \in 0..MaxShuffleCap}
  /\ dbResult = NoQueryYet
  /\ response = NoResponse
  /\ eventLoop = NoLoop
  /\ call = NoCall

\* the call is entered: early return, or the copy before the loop, or no
\* subsampling
EnterCall ==
  /\ call.pc = "none"
  /\ LET arr == request.pointsLonLat
         n0 == Len(arr)
     IN  call' = IF n0 < 2
                 THEN [pc |-> "return", pointsLonLat |-> arr, shuffled |-> <<>>,
                       i |-> 0, pts |-> <<>>, capped |-> FALSE, early |-> TRUE]
                 ELSE IF n0 > request.cap
                 THEN [pc |-> "loop", pointsLonLat |-> arr,
                       shuffled |-> spread(arr), i |-> n0 - 1, pts |-> arr,
                       capped |-> TRUE, early |-> FALSE]
                 ELSE [pc |-> "return", pointsLonLat |-> arr, shuffled |-> <<>>,
                       i |-> 0, pts |-> arr, capped |-> FALSE, early |-> FALSE]
  /\ UNCHANGED <<request, dbResult, response, eventLoop>>

\* one iteration of the shuffle loop; j is Math.floor(Math.random() * (i + 1))
SwapStep ==
  /\ call.pc = "loop"
  /\ call.i > 0
  /\ \E j \in 0..call.i :
       call' = [call EXCEPT !.shuffled = swap(call.shuffled, call.i, j),
                            !.i = call.i - 1]
  /\ UNCHANGED <<request, dbResult, response, eventLoop>>

\* the loop is over: pts = shuffled.slice(0, cap)
SliceSample ==
  /\ call.pc = "loop"
  /\ call.i <= 0
  /\ call' = [call EXCEPT !.pts = ArraySliceTo(call.shuffled, Num(request.cap)),
                          !.pc = "return"]
  /\ UNCHANGED <<request, dbResult, response, eventLoop>>

\* the scan over pts is done and the call returns
ReturnFromCall ==
  /\ call.pc = "return"
  /\ response' = [status |-> 1,
                  used_n |-> IF call.early THEN Len(call.pointsLonLat)
                             ELSE Len(call.pts),
                  capped |-> call.capped]
  /\ call' = [call EXCEPT !.pc = "returned"]
  /\ UNCHANGED <<request, dbResult, eventLoop>>

NextShuffle ==
  \/ EnterCall
  \/ SwapStep
  \/ SliceSample
  \/ ReturnFromCall

SpecShuffle == InitShuffle /\ [][NextShuffle]_vars

-----------------------------------------------------------------------------
(* Properties *)

PolygonEndpoints == {"/polygon/query", "/polygon/stats"}

Answered(endpoint) == request.endpoint = endpoint /\ response # NoResponse

AnsweredPolygon == request.endpoint \in PolygonEndpoints /\ response # NoResponse

StatsReported == Answered("/polygon/stats") /\ response.status = 200

Ranked == Answered("/closest-birthday") /\ response.status = 200

\* C1: a body with one ring and an acceptable limit is rejected if and only
\* if the ring has fewer than 3 points; a ring of 3 or more points is
\* accepted and queried, and a rejected ring reaches no store query.
C1_RejectedIffFewerThanThreePoints ==
  (/\ AnsweredPolygon
   /\ Len(request.body.coordinates) = 1
   /\ (~request.body.limit.present \/ request.body.limit.v \in 1..5000))
  => LET raw == request.body.coordinates[1]
     IN  /\ response.status = 400 <=> Len(raw) < 3
         /\ response.status = 400 => ~dbResult.queried
         /\ Len(raw) >= 3 => dbResult.queried /\ response.status = 200

\* C2: the ring of every store query (and of the area computation of the
\* stats handler) is the input ring with each point clamped to
\* [-180,180] x [-90,90], in-range points unchanged, then closed on the
\* clamped points: first equals last, and the first point was appended
\* exactly when it differed from the clamped last point.
C2_RingClampedThenClosed ==
  (request.endpoint \in PolygonEndpoints /\ dbResult.queried)
  => LET raw == request.body.coordinates[1]
         ring == dbResult.ring
         n == Len(raw)
         within(v, lo, hi) == IF v < lo THEN lo ELSE IF v > hi THEN hi ELSE v
     IN  /\ Len(ring) \in {n, n + 1}
         /\ \A i \in 1..n :
              ring[i] = <<within(raw[i][1], -180, 180), within(raw[i][2], -90, 90)>>
         /\ ring[1] = ring[Len(ring)]
         /\ Len(ring) = n + 1 <=> ring[1] # ring[n]
         /\ request.endpoint = "/polygon/stats" => response.polygon = ring

\* a queried ring whose first and last input points differ but clamp to the
\* same point, so that nothing was appended
C2_Witness ==
  /\ request.endpoint \in PolygonEndpoints
  /\ dbResult.queried
  /\ LET raw == request.body.coordinates[1]
     IN  raw[1] # raw[Len(raw)] /\ Len(dbResult.ring) = Len(raw)

\* C3: when count > 0 the reported hhi is the sum over the (Unknown-
\* normalized) company labels of the wells in the polygon of
\* (label count / count)^2, so it lies in [1/N, 1] for N labels; hhi is null
\* exactly when count is 0.
C3_HhiIsSumOfSquaredShares ==
  StatsReported
  => LET labels == labelsOf("company")
         n == [l \in labels |-> groupCount(dbResult.matched, "company", l)]
         N == Cardinality({l \in labels : n[l] > 0})
         count == response.count
     IN  /\ response.hhi.null <=> count = 0
         /\ count > 0 =>
              /\ response.hhi.den = count * count
              /\ response.hhi.num = SumSquares(n, labels)
              /\ N * response.hhi.num >= response.hhi.den
              /\ response.hhi.num <= response.hhi.den

\* C4: every record of the ranking output carries a distance_days in 0..182.
C4_DistanceWithinHalfYear ==
  Ranked => \A i \in 1..Len(response.results) :
              response.results[i].distance_days \in 0..182

\* the status_date of the document a result was built from
dateOfResult(r) == (CHOOSE d \in {dbResult.docs[i] : i \in 1..Len(dbResult.docs)} :
                      d.id = r.doc).status_date

\* a string that holds two digits at positions 5-7 and two at 8-10
holdsMonthAndDay(s) ==
  Len(s) >= 10 /\ \A i \in {6, 7, 9, 10} : IsDigit(s[i])

\* C5: a record whose status_date is empty, too short to hold month and day
\* or non-numeric there never appears in the ranked output.
C5_UnparseableDatesExcluded ==
  Ranked => \A i \in 1..Len(response.results) :
              holdsMonthAndDay(dateOfResult(response.results[i]))

\* the entries the ranker keeps for the documents it could parse
parsedEntries == mapped(dbResult.docs, dayOfYear(response.month, response.day))

\* C6: for a numeric limit the output is ascending in distance, equal
\* distances in input order, holds min(limit, number of parsed records)
\* records (none for a limit below 0), and omits no record strictly closer
\* than one it includes.
C6_SortedStableTruncated ==
  (Ranked /\ ~response.limit.nan)
  => LET res == response.results
         all == parsedEntries
     IN  /\ Len(res) = Max(0, Min(response.limit.v, Len(all)))
         /\ \A i, j \in 1..Len(res) :
              i < j => \/ res[i].distance_days < res[j].distance_days
                       \/ /\ res[i].distance_days = res[j].distance_days
                          /\ res[i].doc < res[j].doc
         /\ \A i \in 1..Len(res) : \A k \in 1..Len(all) :
              (\A j \in 1..Len(res) : res[j].doc # all[k].doc)
                => all[k].distance >= res[i].distance_days

\* C7: nnd_used_n = min(wells_with_coords, cap) and nnd_capped holds exactly
\* when wells_with_coords > cap, for cap = 1200 above 4000 points and 1500
\* otherwise; so nnd_used_n <= 1500 and equals the cap when capped.
C7_UsedIsMinOfPointsAndCap ==
  StatsReported
  => LET w == response.wells_with_coords
         cap == IF w > 4000 THEN 1200 ELSE 1500
     IN  /\ response.nnd_used_n = Min(w, cap)
         /\ response.nnd_capped <=> w > cap
         /\ response.nnd_used_n <= 1500
         /\ response.nnd_capped => response.nnd_used_n = cap

\* a report over more than 4000 points, sampled down to 1200
C7_Witness ==
  /\ StatsReported
  /\ response.wells_with_coords > 4000
  /\ response.nnd_capped
  /\ response.nnd_used_n = 1200

Called == Answered("meanNearestNeighborDistance")

sizeOf(pointsLonLat) ==
  SumSeq([i \in 1..Len(pointsLonLat) |-> pointsLonLat[i].n])

\* C8: on fewer than 2 points and any cap the result is a null mean, used_n
\* equal to the number of points, capped = false and no distance evaluation;
\* on 2 or more points the mean is not null.
C8_FewerThanTwoPoints ==
  Called
  => LET n == sizeOf(request.pointsLonLat)
     IN  /\ n < 2 => /\ response.nnd.mean_m.tag = "null"
                     /\ response.nnd.used_n = n
                     /\ ~response.nnd.capped
                     /\ response.nnd.evals = 0
         /\ n >= 2 => response.nnd.mean_m.tag # "null"

\* one point and a cap of 0: more points than the cap, yet not capped
C8_Witness ==
  /\ Called
  /\ sizeOf(request.pointsLonLat) = 1
  /\ request.cap = 0
  /\ response.nnd.used_n = 1

\* the quotients a report holds
quotientsOf(report) ==
  {report.lambda, report.expected_mean_nnd_m, report.hhi}
    \cup {r.pct : r \in report.mineral_rights_split}

\* C9: for an empty batch the report has count, wells_with_coords and
\* nnd_used_n 0, nnd_capped false and null mean_nnd_m, expected_mean_nnd_m,
\* nni, hhi, median_status_date and median_status_year; and no report holds
\* a quotient with divisor 0.
C9_EmptyBatchAllNull ==
  StatsReported
  => /\ SumSeq(dbResult.matched) = 0 =>
          /\ response.count = 0
          /\ response.wells_with_coords = 0
          /\ response.nnd_used_n = 0
          /\ ~response.nnd_capped
          /\ response.mean_nnd_m.tag = "null"
          /\ response.expected_mean_nnd_m.null
          /\ response.nni.null
          /\ response.hhi.null
          /\ response.median_status_date.null
          /\ response.median_status_year.null
     /\ \A q \in quotientsOf(response) : ~q.null => q.den # 0
     /\ response.mean_nnd_m.tag # "null" =>
          response.mean_nnd_m.tag = "number" /\ response.mean_nnd_m.den # 0

\* a report for an empty batch inside a polygon of positive area
C9_Witness ==
  /\ StatsReported
  /\ SumSeq(dbResult.matched) = 0
  /\ response.area_m2 > 0

\* C10: nni is null exactly when area_m2 is not > 0, or there is no point
\* with coordinates, or mean_nnd_m is null; expected_mean_nnd_m is null
\* exactly when nni is null.
C10_NniNullIffUnavailable ==
  StatsReported
  => /\ response.nni.null <=>
          \/ ~(response.area_m2 > 0)
          \/ response.wells_with_coords = 0
          \/ response.mean_nnd_m.tag = "null"
     /\ response.expected_mean_nnd_m.null <=> response.nni.null

\* a report with an index: positive area and at least two points
C10_Witness ==
  /\ StatsReported
  /\ response.area_m2 > 0
  /\ response.wells_with_coords >= 2
  /\ ~response.nni.null

MedianCalled == Answered("medianDate")

\* the places of a list of dates whose entry parses to a finite timestamp
finitePlaces(dates) == {i \in 1..Len(dates) : IsFinite(DateParse(dates[i]))}

\* the k-th smallest timestamp of a list of dates, counted with repetitions
kthTime(dates, k) ==
  LET t(i) == DateParse(dates[i]).v
      I == finitePlaces(dates)
  IN  CHOOSE v \in {t(i) : i \in I} :
        /\ Cardinality({i \in I : t(i) < v}) < k
        /\ k <= Cardinality({i \in I : t(i) <= v})

PlacePermutations(n) ==
  {p \in [1..n -> 1..n] : \A i, j \in 1..n : p[i] = p[j] => i = j}

\* what C11 says of a result, but for the value of an even count
medianShape(dates, median) ==
  LET n == Cardinality(finitePlaces(dates))
  IN  /\ median.null <=> n = 0
      /\ n % 2 = 1 => median.t = kthTime(dates, (n + 1) \div 2)
      /\ \A p \in PlacePermutations(Len(dates)) :
           medianDate([i \in 1..Len(dates) |-> dates[p[i]]]) = median

\* C11 as claimed: entries without a finite timestamp are dropped, the
\* result is null exactly when none remain, the central timestamp for an
\* odd count, the arithmetic mean of the two central timestamps for an even
\* count, and the same for every order of the list.
C11_MedianIsExactMean ==
  MedianCalled
  => LET dates == request.dates
         n == Cardinality(finitePlaces(dates))
     IN  /\ medianShape(dates, response.median)
         /\ (n > 0 /\ n % 2 = 0) =>
              2 * response.median.t
                = kthTime(dates, n \div 2) + kthTime(dates, n \div 2 + 1)

\* C11 amended: as claimed, but for an even count the result is the
\* arithmetic mean of the two central timestamps rounded to a whole
\* millisecond, a half rounding up.
C11_MedianIsRoundedMean ==
  MedianCalled
  => LET dates == request.dates
         n == Cardinality(finitePlaces(dates))
     IN  /\ medianShape(dates, response.median)
         /\ (n > 0 /\ n % 2 = 0) =>
              2 * response.median.t
                - (kthTime(dates, n \div 2) + kthTime(dates, n \div 2 + 1))
                \in {0, 1}

\* an even number of timestamps whose two central ones have an odd sum,
\* given out of ascending order and next to an entry that does not parse
C11_Witness ==
  /\ MedianCalled
  /\ LET dates == request.dates
         n == Cardinality(finitePlaces(dates))
     IN  /\ n = 2
         /\ Len(dates) > n
         /\ (kthTime(dates, 1) + kthTime(dates, 2)) % 2 = 1
         /\ \E i, j \in finitePlaces(dates) :
              i < j /\ DateParse(dates[i]).v > DateParse(dates[j]).v
         /\ ~response.median.null

CalendarCalled == Answered("dayOfYear")

\* the number of the days of the months before month m, plus d
dayNumber(md) ==
  SumSeq([i \in 1..12 |-> IF i < md[1] THEN MonthLengths[i] ELSE 0]) + md[2]

\* C12: for calendar dates of the reference year dayOfYear is the 1-indexed
\* day number in 1..365 (Jan 1 is 1, Dec 31 is 365), strictly increasing in
\* calendar order, and circularDiff of two day numbers is the shorter way
\* round the 365-day cycle, min(|a-b|, 365-|a-b|), the same in both
\* directions; Jan 1 and Dec 31 are 1 apart.
C12_DayNumberAndCircularDistance ==
  CalendarCalled
  => LET x == request.first
         y == request.second
         a == response.a
         b == response.b
         gap == IF a < b THEN b - a ELSE a - b
         round(k) == (a + k) % 365 = b % 365 \/ (b + k) % 365 = a % 365
     IN  /\ a \in 1..365
         /\ a = dayNumber(x) /\ b = dayNumber(y)
         /\ x = <<1, 1>> => a = 1
         /\ x = <<12, 31>> => a = 365
         /\ (x[1] < y[1] \/ (x[1] = y[1] /\ x[2] < y[2])) => a < b
         /\ response.ab = (IF gap < 365 - gap THEN gap ELSE 365 - gap)
         /\ response.ab = response.ba
         /\ response.ab \in 0..182
         /\ round(response.ab)
         /\ \A k \in 0..182 : round(k) => response.ab <= k
         /\ (x = <<1, 1>> /\ y = <<12, 31>>) => response.ab = 1

\* Jan 1 against Dec 31: one day apart across the year boundary
C12_Witness ==
  /\ CalendarCalled
  /\ request.first = <<1, 1>>
  /\ request.second = <<12, 31>>
  /\ response.a = 1 /\ response.b = 365
  /\ response.ab = 1

\* client c's stats request is in its scan, with iterations still to run
Scanning(c) ==
  /\ eventLoop.running = c
  /\ eventLoop.i < scanLength(dbResult[c].points)

\* C13: while one stats request is executing its nearest-neighbour scan, the
\* server can still begin and complete the handling of other requests: every
\* other request whose handler or continuation is ready to run can be run.
C13_ScanNeverBlocksOtherRequests ==
  \A c \in Clients : \A q \in Clients \ {c} :
    (Scanning(c) /\ q \in eventLoop.callbacks)
    => ENABLED (BeginHandling(q) \/ Resume(q))

\* the call subsamples and is past its copy of the input
Subsampling == call.pc \in {"loop", "return", "returned"} /\ call.capped

\* number of positions of arr that hold v
occurrences(arr, v) == Cardinality({k \in 1..Len(arr) : arr[k] = v})

isPermutationOf(a, b) ==
  /\ Len(a) = Len(b)
  /\ \A v \in ShufflePoints : occurrences(a, v) = occurrences(b, v)

\* the one-to-one maps of the positions of a sample into those of the input
Injections(k, n) ==
  {f \in [1..k -> 1..n] : \A x, y \in 1..k : f[x] = f[y] => x = y}

\* C14: when meanNearestNeighborDistance subsamples (n > cap), after every
\* swap of the shuffle loop the working array is a permutation of the input,
\* so the working set holds cap points taken from cap distinct input
\* positions, and the caller's input array is left unchanged by the call.
C14_ShuffleKeepsPermutation ==
  Subsampling
  => LET input == request.pointsLonLat
     IN  /\ isPermutationOf(call.shuffled, input)
         /\ call.pointsLonLat = input
         /\ call.pc # "loop"
            => /\ Len(call.pts) = request.cap
               /\ \E f \in Injections(request.cap, Len(input)) :
                    \A k \in 1..request.cap : call.pts[k] = input[f[k]]
               /\ response.status = 1
                  => response.used_n = request.cap /\ response.capped

\* three distinct points sampled down to two, taken in an order the input
\* does not have
C14_Witness ==
  /\ Subsampling
  /\ call.pc = "returned"
  /\ request.pointsLonLat = <<<<0, 0>>, <<2, 0>>, <<5, 0>>>>
  /\ request.cap = 2
  /\ call.pts = <<<<5, 0>>, <<0, 0>>>>
  /\ call.pointsLonLat = request.pointsLonLat

=============================================================================
